---- MODULE Spec2Model ----
(***************************************************************************)
(* A state-machine model of src/detect_road.py: main() split at the        *)
(* statements where the outside world (the detection backend, the encoder, *)
(* the display, the filesystem, the user's interrupt) can decide what      *)
(* happens next.                                                           *)
(*                                                                         *)
(* Abstractions, all stated here once:                                     *)
(*  - confidences are integers in ten-thousandths (9013 = 0.9013); sums    *)
(*    are exact, so float round-off of the running sum is not modelled;    *)
(*  - "{avg_conf:.3f}" is modelled by Round3: the nearest thousandth, a    *)
(*    tie going either way (the binary value of the quotient decides it);  *)
(*  - KeyboardInterrupt is delivered between the modelled steps of the     *)
(*    try body (lines 105-148), where line 150 handles it;                 *)
(*  - run directories are numbers: 0 is <project>/<args.name>, 1 is        *)
(*    <project>/predict, k >= 2 is <project>/predict{k}.                   *)
(***************************************************************************)
EXTENDS Integers, Sequences, FiniteSets, TLC

\* ------------------------------------------------------------- bounds
MaxFrames == 2
MaxDets == 1
MaxDirs == 1
MaxFiles == 2
MaxNames == 6

\* ------------------------------------------------------------- inputs
Labels == {"car", "dog"}
LabelOrder == <<"car", "dog">>
Confs == {7004, 9013}
SaveDirs == {"runA", "runB"}
Picks == {"", "clip.mp4"}

VARIABLES
    args,             \* parse_args(): the flags main reads
    source,           \* the variable source (lines 73-79)
    pc,               \* position in main
    status,           \* "running", "returned" (main returned None), "raised"
    pending,          \* an exception is propagating out of the try body
    endReason,        \* what ended the streaming loop
    raisedAt,         \* the step that raised the propagating exception
    total_frames,
    total_detections,
    stats_counts,     \* defaultdict(int): its keys are its DOMAIN
    stats_conf_sum,   \* defaultdict(float), in ten-thousandths
    last_save_dir,
    writer,           \* the variable writer during the try: "None" or "VideoWriter"
    nboxes,           \* len(res.boxes) of the result being processed
    idx,              \* detections of that result already aggregated
    pulled,           \* results the stream has yielded
    showFailed,       \* history: a cv2.error of the display was swallowed
    fed,              \* history: how many detections of each (label, conf) reached line 138
    fs_dirs,          \* run directories that exist under args.project
    listing,          \* the names that exist under args.project
    mkdirCount,       \* calls of run_dir.mkdir (line 124)
    openCount,        \* direct encoders constructed (line 128)
    releaseCount,     \* writer.release() calls of the finally (line 159)
    destroyCount,     \* cv2.destroyAllWindows() calls (line 154)
    framesWritten,    \* writer.write(plot_img) calls that returned (line 130)
    direct_out_path,  \* run directory number of the artifact, -1 for None
    out,              \* kinds of lines printed
    summary,          \* the per-class lines printed, in order
    fi,               \* legacy files rglob has yielded; the current one is number fi
    cap,              \* decoder of the current file: "none", "open", "released"
    tenc,             \* encoder of the current file: "none", "open", "released"
    dims,             \* <<width, height>> read from the current file, <<-1, -1>> before
    converted,
    fstatus,          \* per legacy file: what the pass did with it
    targets,          \* legacy files for which an .mp4 was created
    deleted,          \* legacy files unlinked
    unreleased        \* legacy files left behind with a decoder or encoder open

streamVars == <<total_frames, total_detections, stats_counts, stats_conf_sum,
                last_save_dir, nboxes, idx, pulled, fed, showFailed>>
directVars == <<writer, fs_dirs, mkdirCount, openCount, framesWritten, direct_out_path>>
fsVars == <<listing>>
closeVars == <<releaseCount, destroyCount>>
reportVars == <<out, summary>>
passVars == <<fi, cap, tenc, dims, converted, fstatus, targets, deleted, unreleased>>
ctlVars == <<status, pending, endReason, raisedAt>>
vars == <<args, source, pc, ctlVars, streamVars, directVars, fsVars, closeVars, reportVars,
          passVars>>

\* The flags main reads. --name is read only with --save-mp4-direct (line 123)
\* and --delete-avi only with --reencode-mp4 (line 209): each is left unset
\* where main cannot read it. --reencode-mp4 is kept free of the save modes,
\* so that lines 179 and 184 decide whether the pass runs.
Flags ==
    {a \in [show : BOOLEAN, save : BOOLEAN, save_mp4_direct : BOOLEAN, name : BOOLEAN,
            reencode_mp4 : BOOLEAN, delete_avi : BOOLEAN] :
        /\ a.name => a.save_mp4_direct
        /\ a.delete_avi => a.reencode_mp4}

Sources == {"browse", "clip.mp4"}

\* ------------------------------------------------------------- helpers

\* d[k] += v on a defaultdict: a missing key starts from 0.
AddTo(d, k, v) ==
    IF k \in DOMAIN d THEN [d EXCEPT ![k] = @ + v] ELSE d @@ (k :> v)

RECURSIVE Probe(_, _)
Probe(existing, i) == IF i \notin existing THEN i ELSE Probe(existing, i + 1)

\* Mutant: the probe starts at predict2 without looking at predict.
next_run_dir_from_two(existing) == Probe(existing, 2)

next_run_dir(existing) == IF 1 \notin existing THEN 1 ELSE Probe(existing, 2)

\* Lines 57 and 62: the name of run directory number k >= 1.
RunDirName(k) == IF k = 1 THEN "predict" ELSE "predict" \o ToString(k)

\* Line 123: the run directory under args.project, 0 being args.name.
RunDirPath(k) == IF k = 0 THEN "<name>" ELSE RunDirName(k)

\* Names a project directory can hold: the run directories and "predict1",
\* which is no run directory.
DirNames == {RunDirName(k) : k \in 1 .. MaxNames} \cup {"predict1"}

\* Lines 58 and 63: the run directories for which exists() answers true.
Existing(names) == {k \in 1 .. MaxNames + 1 : RunDirName(k) \in names}

browse_source == Picks

Max(a, b) == IF a >= b THEN a ELSE b

\* The values "{x:.3f}" can print, in thousandths, for x = s / n with s in
\* ten-thousandths.
Round3(s, n) ==
    LET q == s \div (10 * n)
        r == s % (10 * n)
    IN  IF 2 * r < 10 * n THEN {q}
        ELSE IF 2 * r > 10 * n THEN {q + 1}
        ELSE {q, q + 1}

\* sorted(stats_counts.keys())
SortedKeys(d) == SelectSeq(LabelOrder, LAMBDA l : l \in DOMAIN d)

TryPcs == {"predict", "pull", "count", "plot", "savedir", "direct", "write",
           "boxes", "record", "show"}
PassPcs == {"tnext", "topen", "tenc", "tcopy", "tdelete", "tend"}

\* ------------------------------------------------------------- Init

Init ==
    /\ args \in Flags
    /\ source \in Sources
    /\ pc = "start"
    /\ status = "running"
    /\ pending = FALSE
    /\ endReason = "none"
    /\ raisedAt = "none"
    /\ total_frames = 0
    /\ total_detections = 0
    /\ stats_counts = << >>
    /\ stats_conf_sum = << >>
    /\ last_save_dir = "None"
    /\ writer = "None"
    /\ nboxes = 0
    /\ idx = 0
    /\ pulled = 0
    /\ showFailed = FALSE
    /\ fed = [k \in Labels \X Confs |-> 0]
    /\ fs_dirs \in SUBSET (1 .. MaxDirs)
    /\ (~args.save_mp4_direct \/ args.name) => fs_dirs = {}
    /\ listing = {RunDirName(k) : k \in fs_dirs}
    /\ mkdirCount = 0
    /\ openCount = 0
    /\ releaseCount = 0
    /\ destroyCount = 0
    /\ framesWritten = 0
    /\ direct_out_path = -1
    /\ out = {}
    /\ summary = << >>
    /\ fi = 0
    /\ cap = "none"
    /\ tenc = "none"
    /\ dims = <<-1, -1>>
    /\ converted = 0
    /\ fstatus = << >>
    /\ targets = {}
    /\ deleted = {}
    /\ unreleased = {}

\* ------------------------------------------------------------- the try body

\* An exception other than KeyboardInterrupt leaves the try body: line 150 does
\* not catch it, the finally runs and it propagates out of main.
Raise(at) ==
    /\ pc' = "finally"
    /\ pending' = TRUE
    /\ endReason' = "error"
    /\ raisedAt' = at
    /\ UNCHANGED status

\* Mutant: lines 76-78 removed, so that an empty pick becomes the source.
StartIgnoresCancel ==
    /\ pc = "start"
    /\ IF source = "browse"
          THEN \E picked \in browse_source : source' = picked
          ELSE UNCHANGED source
    /\ pc' = "predict"
    /\ UNCHANGED <<args, listing, ctlVars, streamVars, directVars, closeVars, reportVars,
                   passVars>>

\* Lines 69-83: the source is resolved; a cancelled pick returns from main.
Start ==
    /\ pc = "start"
    /\ IF source = "browse"
          THEN \E picked \in browse_source :
                  IF picked = ""
                     THEN /\ out' = out \cup {"NoFileSelected"}
                          /\ pc' = "done"
                          /\ status' = "returned"
                          /\ UNCHANGED source
                     ELSE /\ source' = picked
                          /\ pc' = "predict"
                          /\ UNCHANGED <<out, status>>
          ELSE /\ pc' = "predict"
               /\ UNCHANGED <<source, out, status>>
    /\ UNCHANGED <<args, listing, pending, endReason, raisedAt, streamVars, directVars,
                   closeVars, summary, passVars>>

\* Lines 93-106: model.predict(**predict_kwargs) hands back the lazy stream.
Predict ==
    /\ pc = "predict"
    /\ pc' = "pull"
    /\ UNCHANGED <<args, listing, source, ctlVars, streamVars, directVars, closeVars, reportVars, passVars>>

\* Line 106: the stream cannot be opened.
PredictRaises ==
    /\ pc = "predict"
    /\ Raise("open")
    /\ UNCHANGED <<args, listing, source, streamVars, directVars, closeVars, reportVars, passVars>>

\* Line 107: the stream yields the next result.
Pull ==
    /\ pc = "pull"
    /\ pulled < MaxFrames
    /\ pulled' = pulled + 1
    /\ \E n \in 0 .. MaxDets : nboxes' = n
    /\ idx' = 0
    /\ pc' = "count"
    /\ UNCHANGED <<args, listing, source, ctlVars, total_frames, total_detections, stats_counts,
                   stats_conf_sum, last_save_dir, fed, showFailed, directVars,
                   closeVars, reportVars, passVars>>

\* Line 107: the stream is exhausted, the for loop ends.
PullExhausted ==
    /\ pc = "pull"
    /\ endReason' = "exhausted"
    /\ pc' = "finally"
    /\ UNCHANGED <<args, listing, source, status, pending, raisedAt, streamVars, directVars,
                   closeVars, reportVars, passVars>>

\* Line 107: the backend raises while producing the next result.
PullRaises ==
    /\ pc = "pull"
    /\ Raise(IF pulled = 0 THEN "open" ELSE "pull")
    /\ UNCHANGED <<args, listing, source, streamVars, directVars, closeVars, reportVars, passVars>>

\* Line 108.
Count ==
    /\ pc = "count"
    /\ total_frames' = total_frames + 1
    /\ pc' = "plot"
    /\ UNCHANGED <<args, listing, source, ctlVars, total_detections, stats_counts, stats_conf_sum,
                   last_save_dir, nboxes, idx, pulled, fed, showFailed, directVars,
                   closeVars, reportVars, passVars>>

\* Line 109: res.plot() renders the annotated image.
Plot ==
    /\ pc = "plot"
    /\ pc' = "savedir"
    /\ UNCHANGED <<args, listing, source, ctlVars, streamVars, directVars, closeVars, reportVars, passVars>>

PlotRaises ==
    /\ pc = "plot"
    /\ Raise("plot")
    /\ UNCHANGED <<args, listing, source, streamVars, directVars, closeVars, reportVars, passVars>>

\* Lines 113-114: the assignment made when the result reports save directory sd.
CaptureSaveDir(cur, sd) == IF sd # "None" THEN sd ELSE cur

\* Lines 112-116.
SaveDir ==
    /\ pc = "savedir"
    /\ \E sd \in SaveDirs \cup {"None"} :
          last_save_dir' = CaptureSaveDir(last_save_dir, sd)
    /\ pc' = "direct"
    /\ UNCHANGED <<args, listing, source, ctlVars, total_frames, total_detections, stats_counts,
                   stats_conf_sum, nboxes, idx, pulled, fed, showFailed, directVars,
                   closeVars, reportVars, passVars>>

\* Mutant: the run directory and the encoder are created for every frame.
NeedsInitAlways(w) == TRUE

\* Line 120: whether this frame has to create the run directory and the encoder.
NeedsInit(w) == w = "None"

\* Lines 119-129: direct mode creates the run directory and the encoder.
DirectOutput ==
    /\ pc = "direct"
    /\ IF args.save_mp4_direct
          THEN /\ pc' = "write"
               /\ IF NeedsInit(writer)
                     THEN LET run_dir == IF args.name THEN 0 ELSE next_run_dir(fs_dirs)
                          IN  /\ fs_dirs' = fs_dirs \cup {run_dir}
                              /\ listing' = listing \cup {RunDirPath(run_dir)}
                              /\ mkdirCount' = mkdirCount + 1
                              /\ direct_out_path' = run_dir
                              /\ writer' = "VideoWriter"
                              /\ openCount' = openCount + 1
                              /\ out' = out \cup {"WritingDirect"}
                     ELSE UNCHANGED <<fs_dirs, listing, mkdirCount, direct_out_path, writer,
                                      openCount, out>>
          ELSE /\ pc' = "boxes"
               /\ UNCHANGED <<fs_dirs, listing, mkdirCount, direct_out_path, writer,
                              openCount, out>>
    /\ UNCHANGED <<args, source, ctlVars, streamVars, framesWritten, closeVars, summary, passVars>>

\* Mutant: line 130 indented into the block of line 120, so that only the frame
\* that created the encoder is written.
WriteOnlyWhenCreated ==
    /\ pc = "write"
    /\ framesWritten' = IF framesWritten = 0 THEN 1 ELSE framesWritten
    /\ pc' = "boxes"
    /\ UNCHANGED <<args, listing, source, ctlVars, streamVars, writer, fs_dirs, mkdirCount,
                   openCount, direct_out_path, closeVars, reportVars, passVars>>

\* Line 130.
Write ==
    /\ pc = "write"
    /\ framesWritten' = framesWritten + 1
    /\ pc' = "boxes"
    /\ UNCHANGED <<args, listing, source, ctlVars, streamVars, writer, fs_dirs, mkdirCount, openCount,
                   direct_out_path, closeVars, reportVars, passVars>>

WriteRaises ==
    /\ pc = "write"
    /\ Raise("write")
    /\ UNCHANGED <<args, listing, source, streamVars, directVars, closeVars, reportVars, passVars>>

\* Lines 132-135: a result with detections enters the aggregation loop.
Boxes ==
    /\ pc = "boxes"
    /\ pc' = IF nboxes > 0 THEN "record" ELSE "show"
    /\ UNCHANGED <<args, listing, source, ctlVars, streamVars, directVars, closeVars, reportVars, passVars>>

\* Lines 133-135: reading the detections of the result fails.
BoxesRaises ==
    /\ pc = "boxes"
    /\ nboxes > 0
    /\ Raise("boxes")
    /\ UNCHANGED <<args, listing, source, streamVars, directVars, closeVars, reportVars, passVars>>

\* Mutant: the count is set to one instead of incremented.
RecordCountReset(counts, l) ==
    IF l \in DOMAIN counts THEN [counts EXCEPT ![l] = 1] ELSE counts @@ (l :> 1)

\* Line 138.
RecordCount(counts, l) == AddTo(counts, l, 1)

\* Mutant: the confidence is assigned instead of added.
RecordConfOverwrite(sums, l, c) ==
    IF l \in DOMAIN sums THEN [sums EXCEPT ![l] = c] ELSE sums @@ (l :> c)

\* Line 139.
RecordConf(sums, l, c) == AddTo(sums, l, c)

\* Lines 136-140: one detection of the result.
Record ==
    /\ pc = "record"
    /\ \E l \in Labels, c \in Confs :
          /\ stats_counts' = RecordCount(stats_counts, l)
          /\ stats_conf_sum' = RecordConf(stats_conf_sum, l, c)
          /\ fed' = [fed EXCEPT ![<<l, c>>] = @ + 1]
    /\ total_detections' = total_detections + 1
    /\ idx' = idx + 1
    /\ pc' = IF idx + 1 < nboxes THEN "record" ELSE "show"
    /\ UNCHANGED <<args, listing, source, ctlVars, total_frames, last_save_dir, nboxes, pulled,
                   showFailed, directVars, closeVars, reportVars, passVars>>

\* Line 142: without --show the loop goes to the next result.
\* Lines 144-145: with --show, the frame is shown and no quit key is read.
Show ==
    /\ pc = "show"
    /\ pc' = "pull"
    /\ UNCHANGED <<args, listing, source, ctlVars, streamVars, directVars, closeVars, reportVars, passVars>>

\* Lines 145-146: the quit key (Esc or q) breaks out of the loop.
ShowQuit ==
    /\ pc = "show"
    /\ args.show
    /\ endReason' = "quit"
    /\ pc' = "finally"
    /\ UNCHANGED <<args, listing, source, status, pending, raisedAt, streamVars, directVars,
                   closeVars, reportVars, passVars>>

\* Mutant: cv2.error from the display is not caught.
ShowErrorEscapes ==
    /\ pc = "show"
    /\ args.show
    /\ showFailed' = TRUE
    /\ Raise("show")
    /\ UNCHANGED <<args, listing, source, total_frames, total_detections, stats_counts,
                   stats_conf_sum, last_save_dir, nboxes, idx, pulled, fed,
                   directVars, closeVars, reportVars, passVars>>

\* Lines 147-148: cv2.error from imshow or waitKey is swallowed.
ShowError ==
    /\ pc = "show"
    /\ args.show
    /\ showFailed' = TRUE
    /\ pc' = "pull"
    /\ UNCHANGED <<args, listing, source, ctlVars, total_frames, total_detections, stats_counts,
                   stats_conf_sum, last_save_dir, nboxes, idx, pulled, fed,
                   directVars, closeVars, reportVars, passVars>>

\* Mutant: KeyboardInterrupt is not caught and leaves main.
InterruptEscapes ==
    /\ pc \in TryPcs
    /\ endReason' = "interrupt"
    /\ pending' = TRUE
    /\ pc' = "finally"
    /\ UNCHANGED <<args, listing, source, status, raisedAt, streamVars, directVars,
                   closeVars, reportVars, passVars>>

\* Lines 150-151: KeyboardInterrupt anywhere in the try body is swallowed.
Interrupt ==
    /\ pc \in TryPcs
    /\ endReason' = "interrupt"
    /\ pc' = "finally"
    /\ UNCHANGED <<args, listing, source, status, pending, raisedAt, streamVars, directVars,
                   closeVars, reportVars, passVars>>

\* ------------------------------------------------------------- the finally

\* Mutant: the encoder is released on the normal path only.
MustReleaseUnlessRaised(w) == w # "None" /\ ~pending

\* Mutant: the finally forgets the encoder.
MustReleaseNever(w) == FALSE

\* Line 157: the finally releases the encoder the try body created.
MustRelease(w) == w # "None"

\* Mutant: the finally swallows the exception and main goes on to the report.
FinallySwallows ==
    /\ pc = "finally"
    /\ destroyCount' = destroyCount + 1
    /\ releaseCount' = IF MustRelease(writer) THEN releaseCount + 1 ELSE releaseCount
    /\ pc' = "report"
    /\ UNCHANGED <<args, listing, source, ctlVars, streamVars, directVars, reportVars,
                   passVars>>

\* Lines 152-161, then the exception still propagating leaves main.
Finally ==
    /\ pc = "finally"
    /\ destroyCount' = destroyCount + 1
    /\ releaseCount' = IF MustRelease(writer) THEN releaseCount + 1 ELSE releaseCount
    /\ IF pending
          THEN /\ pc' = "done"
               /\ status' = "raised"
          ELSE /\ pc' = "report"
               /\ UNCHANGED status
    /\ UNCHANGED <<args, listing, source, pending, endReason, raisedAt, streamVars, directVars,
                   reportVars, passVars>>

\* ------------------------------------------------------------- the report

\* Mutant: the "no frames" branch is also taken when nothing was detected.
NoFramesOrNoDetections(frames) == frames = 0 \/ total_detections = 0

\* Mutant: the early return of lines 163-165 is never taken.
NoFramesNever(frames) == FALSE

\* Line 163: the run pulled no result.
NoFrames(frames) == frames = 0

\* Line 170: the run recorded no detection.
NoObjects(detections) == detections = 0

\* Lines 174-177: the per-class lines, for one choice of the roundings.
ClassLines(shown) ==
    LET keys == SortedKeys(stats_counts)
    IN  [i \in 1 .. Len(keys) |->
            [cls |-> keys[i], count |-> stats_counts[keys[i]], avg |-> shown[keys[i]]]]

\* Lines 176-177: the averages the per-class lines can show.
Averages(l) == Round3(stats_conf_sum[l], Max(stats_counts[l], 1))

Shown ==
    {f \in [DOMAIN stats_counts -> UNION {Averages(l) : l \in DOMAIN stats_counts}] :
        \A l \in DOMAIN stats_counts : f[l] \in Averages(l)}

\* Lines 163-177.
Report ==
    /\ pc = "report"
    /\ IF NoFrames(total_frames)
          THEN /\ out' = out \cup {"NoFrames"}
               /\ pc' = "done"
               /\ status' = "returned"
               /\ UNCHANGED summary
          ELSE /\ pc' = "saved"
               /\ UNCHANGED status
               /\ IF NoObjects(total_detections)
                     THEN /\ out' = out \cup {"Summary", "NoObjects"}
                          /\ UNCHANGED summary
                     ELSE /\ out' = out \cup {"Summary", "PerClass"}
                          /\ \E shown \in Shown : summary' = ClassLines(shown)
    /\ UNCHANGED <<args, listing, source, pending, endReason, raisedAt, streamVars, directVars,
                   closeVars, passVars>>

\* ------------------------------------------------------------- the transcode pass

\* Lines 179 and 184: whether the run goes on to the transcode pass.
RunsPass(a) == (a.save \/ a.save_mp4_direct) /\ a.reencode_mp4

\* Lines 179-187: the "saved under" line, then the pass starts.
Saved ==
    /\ pc = "saved"
    /\ out' = IF args.save \/ args.save_mp4_direct THEN out \cup {"Saved"} ELSE out
    /\ IF RunsPass(args)
          THEN /\ converted' = 0
               /\ pc' = "tnext"
               /\ UNCHANGED status
          ELSE /\ pc' = "done"
               /\ status' = "returned"
               /\ UNCHANGED converted
    /\ UNCHANGED <<args, listing, source, pending, endReason, raisedAt, streamVars, directVars,
                   closeVars, summary, fi, cap, tenc, dims, fstatus, targets, deleted,
                   unreleased>>

\* Lines 188-189: save_root.rglob("*.avi") yields the next legacy file.
NextFile ==
    /\ pc = "tnext"
    /\ fi < MaxFiles
    /\ fi' = fi + 1
    /\ fstatus' = Append(fstatus, "pending")
    /\ cap' = "none"
    /\ tenc' = "none"
    /\ dims' = <<-1, -1>>
    /\ pc' = "topen"
    /\ UNCHANGED <<args, listing, source, ctlVars, streamVars, directVars, closeVars, reportVars,
                   converted, targets, deleted, unreleased>>

\* Line 188: rglob yields no further file, the for loop ends.
NoMoreFiles ==
    /\ pc = "tnext"
    /\ pc' = "tend"
    /\ UNCHANGED <<args, listing, source, ctlVars, streamVars, directVars, closeVars, reportVars,
                   passVars>>

\* Mutant: a failure on one file ends the whole pass.
FileFailsAborts(decoder, encoder) ==
    /\ out' = out \cup {"FailedReencode"}
    /\ fstatus' = [fstatus EXCEPT ![fi] = "failed"]
    /\ unreleased' = IF decoder = "open" \/ encoder = "open"
                        THEN unreleased \cup {fi} ELSE unreleased
    /\ pc' = "tend"

\* Mutant: with --delete-avi, a file whose transcode failed goes on to the
\* unlink of line 211.
FileFailsThenDeletes(decoder, encoder) ==
    /\ out' = out \cup {"FailedReencode"}
    /\ fstatus' = [fstatus EXCEPT ![fi] = "failed"]
    /\ unreleased' = IF decoder = "open" \/ encoder = "open"
                        THEN unreleased \cup {fi} ELSE unreleased
    /\ pc' = IF args.delete_avi THEN "tdelete" ELSE "tnext"

\* Lines 215-216: an exception inside the per-file try is reported and the loop
\* goes on; nothing the file had open is released on this path.
FileFails(decoder, encoder) ==
    /\ out' = out \cup {"FailedReencode"}
    /\ fstatus' = [fstatus EXCEPT ![fi] = "failed"]
    /\ unreleased' = IF decoder = "open" \/ encoder = "open"
                        THEN unreleased \cup {fi} ELSE unreleased
    /\ pc' = "tnext"

\* Mutant: a file is skipped only when both sizes are zero.
ZeroDimsBoth(width, height) == width = 0 /\ height = 0

\* Line 195: the decoder reports no usable size.
ZeroDims(width, height) == width = 0 \/ height = 0

\* Lines 191-197: the decoder is opened and the size read; a file with no size
\* is released and skipped.
OpenDecoder ==
    /\ pc = "topen"
    /\ \E width \in {0, 640}, height \in {0, 480} :
          /\ dims' = <<width, height>>
          /\ IF ZeroDims(width, height)
             THEN /\ cap' = "released"
                  /\ fstatus' = [fstatus EXCEPT ![fi] = "skipped"]
                  /\ pc' = "tnext"
             ELSE /\ cap' = "open"
                  /\ pc' = "tenc"
                  /\ UNCHANGED fstatus
    /\ UNCHANGED <<args, listing, source, ctlVars, streamVars, directVars, closeVars, reportVars,
                   fi, tenc, converted, targets, deleted, unreleased>>

\* Line 191: cv2.VideoCapture raises; no decoder was bound.
OpenDecoderRaises ==
    /\ pc = "topen"
    /\ FileFails(cap, tenc)
    /\ UNCHANGED <<args, listing, source, ctlVars, streamVars, directVars, closeVars, summary,
                   fi, cap, tenc, dims, converted, targets, deleted>>

\* Lines 198-199: the target encoder is created.
OpenEncoder ==
    /\ pc = "tenc"
    /\ tenc' = "open"
    /\ targets' = targets \cup {fi}
    /\ pc' = "tcopy"
    /\ UNCHANGED <<args, listing, source, ctlVars, streamVars, directVars, closeVars, reportVars,
                   fi, cap, dims, converted, fstatus, deleted, unreleased>>

OpenEncoderRaises ==
    /\ pc = "tenc"
    /\ FileFails(cap, tenc)
    /\ UNCHANGED <<args, listing, source, ctlVars, streamVars, directVars, closeVars, summary,
                   fi, cap, tenc, dims, converted, targets, deleted>>

\* Lines 200-204: one frame is read and written to the target; the loop stays
\* where it is.
CopyFrame ==
    /\ pc = "tcopy"
    /\ UNCHANGED vars

\* Line 204: writer.write(frame) raises.
CopyFrameRaises ==
    /\ pc = "tcopy"
    /\ FileFails(cap, tenc)
    /\ UNCHANGED <<args, listing, source, ctlVars, streamVars, directVars, closeVars, summary,
                   fi, cap, tenc, dims, converted, targets, deleted>>

\* Lines 201-203 and 205-208: cap.read() reports no frame; both resources are
\* released and the file is counted.
FinishFile ==
    /\ pc = "tcopy"
    /\ tenc' = "released"
    /\ cap' = "released"
    /\ out' = out \cup {"Reencoded"}
    /\ converted' = converted + 1
    /\ fstatus' = [fstatus EXCEPT ![fi] = "converted"]
    /\ pc' = IF args.delete_avi THEN "tdelete" ELSE "tnext"
    /\ UNCHANGED <<args, listing, source, ctlVars, streamVars, directVars, closeVars, summary,
                   fi, dims, targets, deleted, unreleased>>

\* Lines 210-212: the original is unlinked.
DeleteOriginal ==
    /\ pc = "tdelete"
    /\ deleted' = deleted \cup {fi}
    /\ out' = out \cup {"DeletedSource"}
    /\ pc' = "tnext"
    /\ UNCHANGED <<args, listing, source, ctlVars, streamVars, directVars, closeVars, summary,
                   fi, cap, tenc, dims, converted, fstatus, targets, unreleased>>

\* Lines 213-214: unlink raises; the failure is reported inside the inner try.
DeleteOriginalRaises ==
    /\ pc = "tdelete"
    /\ out' = out \cup {"CouldNotDelete"}
    /\ pc' = "tnext"
    /\ UNCHANGED <<args, listing, source, ctlVars, streamVars, directVars, closeVars, summary,
                   passVars>>

\* Lines 217-218, then main returns.
EndPass ==
    /\ pc = "tend"
    /\ out' = IF converted = 0 THEN out \cup {"NoAviConverted"} ELSE out
    /\ pc' = "done"
    /\ status' = "returned"
    /\ UNCHANGED <<args, listing, source, pending, endReason, raisedAt, streamVars, directVars,
                   closeVars, summary, passVars>>

\* ------------------------------------------------------------- the program

\* Line 222: sys.exit(main()): None gives 0, an uncaught exception gives 1.
ExitStatus == IF status = "raised" THEN 1 ELSE 0

Next ==
    \/ Start
    \/ Predict
    \/ PredictRaises
    \/ Pull
    \/ PullExhausted
    \/ PullRaises
    \/ Count
    \/ Plot
    \/ PlotRaises
    \/ SaveDir
    \/ DirectOutput
    \/ Write
    \/ WriteRaises
    \/ Boxes
    \/ BoxesRaises
    \/ Record
    \/ Show
    \/ ShowQuit
    \/ ShowError
    \/ Interrupt
    \/ Finally
    \/ Report
    \/ Saved
    \/ NextFile
    \/ NoMoreFiles
    \/ OpenDecoder
    \/ OpenDecoderRaises
    \/ OpenEncoder
    \/ OpenEncoderRaises
    \/ CopyFrame
    \/ CopyFrameRaises
    \/ FinishFile
    \/ DeleteOriginal
    \/ DeleteOriginalRaises
    \/ EndPass

Spec == Init /\ [][Next]_vars

\* ------------------------------------------------------------- next_run_dir alone

\* A call of next_run_dir on a project directory holding any of DirNames.
InitDirs ==
    /\ args = [show |-> FALSE, save |-> FALSE, save_mp4_direct |-> TRUE, name |-> FALSE,
               reencode_mp4 |-> FALSE, delete_avi |-> FALSE]
    /\ source = "clip.mp4"
    /\ pc = "alloc"
    /\ status = "running"
    /\ pending = FALSE
    /\ endReason = "none"
    /\ raisedAt = "none"
    /\ total_frames = 0
    /\ total_detections = 0
    /\ stats_counts = << >>
    /\ stats_conf_sum = << >>
    /\ last_save_dir = "None"
    /\ writer = "None"
    /\ nboxes = 0
    /\ idx = 0
    /\ pulled = 0
    /\ showFailed = FALSE
    /\ fed = [k \in Labels \X Confs |-> 0]
    /\ listing \in SUBSET DirNames
    /\ fs_dirs = Existing(listing)
    /\ mkdirCount = 0
    /\ openCount = 0
    /\ releaseCount = 0
    /\ destroyCount = 0
    /\ framesWritten = 0
    /\ direct_out_path = -1
    /\ out = {}
    /\ summary = << >>
    /\ fi = 0
    /\ cap = "none"
    /\ tenc = "none"
    /\ dims = <<-1, -1>>
    /\ converted = 0
    /\ fstatus = << >>
    /\ targets = {}
    /\ deleted = {}
    /\ unreleased = {}

\* Lines 55-65: the call returns; the caller keeps the result.
Allocate ==
    /\ pc = "alloc"
    /\ direct_out_path' = next_run_dir(Existing(listing))
    /\ pc' = "allocated"
    /\ UNCHANGED <<args, listing, source, ctlVars, streamVars, writer, fs_dirs, mkdirCount,
                   openCount, framesWritten, closeVars, reportVars, passVars>>

NextDirs == Allocate

SpecDirs == InitDirs /\ [][NextDirs]_vars

\* ------------------------------------------------------------- properties

\* Positions after the finally clause has run.
AfterFinally == pc \in {"report", "saved", "done"} \cup PassPcs

\* The direct encoder exists and has not been released.
EncoderOpen == openCount > releaseCount

C5_PassAfterRelease ==
    (cap = "open" \/ tenc = "open") =>
        /\ pc \in PassPcs \cup {"done"}
        /\ endReason \in {"exhausted", "quit", "interrupt"}
        /\ ~EncoderOpen
        /\ destroyCount = 1

\* C5 witness: a direct-mode run copying frames in the pass.
C5_Witness ==
    /\ pc = "tcopy"
    /\ cap = "open"
    /\ tenc = "open"
    /\ openCount = 1
    /\ framesWritten = 2

RECURSIVE FedCountOver(_, _)
FedCountOver(l, cs) ==
    IF cs = {} THEN 0
    ELSE LET c == CHOOSE x \in cs : TRUE
         IN  fed[<<l, c>>] + FedCountOver(l, cs \ {c})

RECURSIVE FedSumOver(_, _)
FedSumOver(l, cs) ==
    IF cs = {} THEN 0
    ELSE LET c == CHOOSE x \in cs : TRUE
         IN  c * fed[<<l, c>>] + FedSumOver(l, cs \ {c})

\* The detections label l received over the run, and the sum of their
\* confidences (ten-thousandths).
FedCount(l) == FedCountOver(l, Confs)
FedSum(l) == FedSumOver(l, Confs)

LinesOf(l) == {i \in DOMAIN summary : summary[i].cls = l}

Abs(x) == IF x < 0 THEN -x ELSE x

ReportMade ==
    \/ pc \in {"saved"} \cup PassPcs
    \/ pc = "done" /\ status = "returned" /\ "NoFileSelected" \notin out

\* C7: the "no frames processed" report is produced exactly when total_frames
\* is 0, the "no objects detected" report exactly when frames were processed
\* and nothing was detected, and never both.
C7_DistinctReports ==
    /\ ~("NoFrames" \in out /\ "NoObjects" \in out)
    /\ ReportMade =>
          /\ "NoFrames" \in out <=> total_frames = 0
          /\ "NoObjects" \in out <=> (total_frames > 0 /\ total_detections = 0)
    /\ ~ReportMade => ("NoFrames" \notin out /\ "NoObjects" \notin out)

\* C7 witness: two frames without a detection.
C7_Witness ==
    /\ pc = "done"
    /\ "NoObjects" \in out
    /\ total_frames = 2
    /\ total_detections = 0

C9_AllFramesWritten ==
    (args.save_mp4_direct /\ endReason \in {"exhausted", "quit"}) =>
        /\ framesWritten = total_frames
        /\ total_frames = pulled
        /\ openCount = IF total_frames > 0 THEN 1 ELSE 0

\* C9 witness: the quit key on the second frame, both frames written.
C9_Witness ==
    /\ args.save_mp4_direct
    /\ endReason = "quit"
    /\ total_frames = 2
    /\ framesWritten = 2
    /\ pc = "done"

\* The file being handled was read with a zero width or height.
CurrentZero == fi >= 1 /\ (dims[1] = 0 \/ dims[2] = 0)

\* C10: a legacy file with zero width or height is skipped: not counted, not
\* reported as a failure, without a target, never deleted; converted counts
\* the files copied to completion.
C10_ZeroDimsSkipped ==
    /\ [](/\ CurrentZero =>
                (fstatus[fi] = "skipped" /\ cap = "released" /\ tenc = "none")
          /\ \A f \in DOMAIN fstatus :
                fstatus[f] = "skipped" => (f \notin targets /\ f \notin deleted)
          /\ converted = Cardinality({f \in DOMAIN fstatus : fstatus[f] = "converted"})
          /\ "FailedReencode" \in out <=> (\E f \in DOMAIN fstatus : fstatus[f] = "failed"))
    /\ [][(dims' # dims /\ (dims'[1] = 0 \/ dims'[2] = 0)) =>
             (converted' = converted /\ out' = out /\ targets' = targets
              /\ deleted' = deleted)]_vars

\* C10 witness: with --delete-avi, a valid file was converted and deleted and a
\* zero-size file was skipped.
C10_Witness ==
    /\ pc = "done"
    /\ args.delete_avi
    /\ fstatus = <<"converted", "skipped">>
    /\ converted = 1
    /\ targets = {1}
    /\ deleted = {1}

\* C11: a failure on one file of the pass (opening, decoding, encoding or
\* deleting it) never ends the pass: the loop goes back to ask for the next
\* file, the pass ends only when no further file is found, no exception leaves
\* main, and converted counts the files that succeeded.
C11_FailureNeverAborts ==
    /\ [](/\ Len(fstatus) = fi
          /\ \A f \in DOMAIN fstatus : f < fi => fstatus[f] # "pending"
          /\ fi > 0 => status # "raised"
          /\ converted = Cardinality({f \in DOMAIN fstatus : fstatus[f] = "converted"})
          /\ pc \in {"tend", "done"} => \A f \in DOMAIN fstatus : fstatus[f] # "pending")
    /\ [][pc' = "tend" => pc \in {"tnext", "tend"}]_vars
    /\ [][(pc \in PassPcs /\ pc' = "done") => pc = "tend"]_vars
    /\ [][(fi' = fi /\ fi > 0 /\ fstatus[fi] # "failed" /\ fstatus'[fi] = "failed") =>
             (pc' = "tnext" /\ converted' = converted /\ "FailedReencode" \in out')]_vars
    /\ [][(pc = "tdelete" /\ deleted' = deleted) =>
             (pc' \in {"tnext", "tdelete"} /\ converted' = converted)]_vars

\* C11 witness: the first file failed, the second was still attempted and
\* converted, and the pass ended with a count of one.
C11_Witness ==
    /\ pc = "done"
    /\ fstatus = <<"failed", "converted">>
    /\ converted = 1
    /\ "FailedReencode" \in out

\* C12: an original is unlinked only with --delete-avi and after the transcode
\* of that same file completed (both resources released, the file counted); a
\* skipped or failed file is never unlinked, and an unlink that fails leaves
\* the target and the converted count as they were.
C12_DeleteOnlyAfterSuccess ==
    /\ [](\A f \in deleted :
              /\ args.delete_avi
              /\ f \in DOMAIN fstatus
              /\ fstatus[f] = "converted"
              /\ f \in targets)
    /\ [](pc = "tdelete" =>
              (args.delete_avi /\ fstatus[fi] = "converted"
               /\ cap = "released" /\ tenc = "released"))
    /\ [][deleted' # deleted => (pc = "tdelete" /\ deleted' = deleted \cup {fi})]_vars
    /\ [][(pc = "tdelete" /\ pc' # pc /\ deleted' = deleted) =>
             (/\ "CouldNotDelete" \in out'
              /\ targets' = targets
              /\ converted' = converted
              /\ fstatus' = fstatus)]_vars

\* C12 witness: two files converted, the unlink of one succeeded and the unlink
\* of the other failed, both targets and the count of two kept.
C12_Witness ==
    /\ pc = "done"
    /\ fstatus = <<"converted", "converted">>
    /\ deleted = {1}
    /\ "CouldNotDelete" \in out
    /\ targets = {1, 2}
    /\ converted = 2

\* The kinds of lines the pass has printed.
PassOutput ==
    out \cap {"Reencoded", "DeletedSource", "CouldNotDelete", "FailedReencode",
              "NoAviConverted"}

\* C13: when the pass ends with nothing converted, its output tells whether no
\* legacy file was found: the lines printed when none was found are never the
\* lines printed when files were found and none was converted.
C13_ZeroReportsDistinct ==
    (pc = "done" /\ "Saved" \in out /\ RunsPass(args) /\ converted = 0) =>
        (fi = 0 <=> PassOutput = {"NoAviConverted"})

\* C14: next_run_dir returns the first name of predict, predict2, predict3, ...
\* that does not exist: the name returned does not exist, every earlier name
\* of the sequence exists, predict1 is never returned and its presence does
\* not change the answer, and the call leaves the directory as it was.
C14_FirstFreeName ==
    /\ [](pc = "allocated" =>
              /\ direct_out_path \in 1 .. MaxNames + 1
              /\ RunDirName(direct_out_path) \notin listing
              /\ \A j \in 1 .. direct_out_path - 1 : RunDirName(j) \in listing
              /\ RunDirName(direct_out_path) # "predict1"
              /\ direct_out_path = next_run_dir(Existing(listing \ {"predict1"})))
    /\ [][listing' = listing /\ fs_dirs' = fs_dirs /\ mkdirCount' = mkdirCount]_vars

\* C14 witness: predict, predict1 and predict2 exist, predict3 does not, and
\* the call returned predict3.
C14_Witness ==
    /\ pc = "allocated"
    /\ {"predict", "predict1", "predict2", "predict4"} \subseteq listing
    /\ "predict3" \notin listing
    /\ RunDirName(direct_out_path) = "predict3"

\* C15: when the source is the sentinel and the pick is empty, main returns at
\* once: the stream is never opened on the sentinel or on the empty pick,
\* nothing is pulled, no run directory or encoder is created, nothing but the
\* "no file selected" line is printed and the pass does not run.
C15_CancelledPick ==
    /\ [](/\ pc \notin {"start", "done"} => source \notin {"browse", ""}
          /\ "NoFileSelected" \in out =>
                /\ pc = "done"
                /\ status = "returned"
                /\ ExitStatus = 0
                /\ source = "browse"
                /\ out = {"NoFileSelected"}
                /\ summary = << >>
                /\ pulled = 0
                /\ total_frames = 0
                /\ mkdirCount = 0
                /\ openCount = 0
                /\ destroyCount = 0
                /\ fi = 0)
    /\ [][(pc = "start" /\ pc' # pc /\ source' = "browse") =>
             (pc' = "done" /\ "NoFileSelected" \in out')]_vars

\* C15 witness: a run asked to write directly, transcode and delete, whose
\* pick was cancelled.
C15_Witness ==
    /\ pc = "done"
    /\ out = {"NoFileSelected"}
    /\ args.save_mp4_direct
    /\ args.reencode_mp4
    /\ args.delete_avi
    /\ source = "browse"

\* C16: when a quit key or an interrupt stops the loop, every counted frame
\* was written to the encoder (direct mode) and has all its detections in the
\* aggregate.
C16_NoMidFrameCancel ==
    endReason \in {"quit", "interrupt"} =>
        /\ args.save_mp4_direct => framesWritten = total_frames
        /\ total_frames = pulled => idx = nboxes

\* C17: whenever the pass is between files or over, no decoder or encoder of
\* a file it handled is still open.
C17_ReleasedPerFile ==
    pc \in {"tnext", "tend", "done"} =>
        /\ cap # "open"
        /\ tenc # "open"
        /\ unreleased = {}

RECURSIVE CountSum(_, _)
CountSum(d, ks) ==
    IF ks = {} THEN 0
    ELSE LET k == CHOOSE x \in ks : TRUE
         IN  d[k] + CountSum(d, ks \ {k})

\* C18: between two frames of the streaming loop every class present has a
\* count of at least one, the two maps have the same keys, total_detections is
\* the sum of the counts and total_frames the number of results pulled; no
\* count or total ever decreases and no key disappears.
C18_AggregateConsistent ==
    /\ [](pc = "pull" =>
              /\ DOMAIN stats_counts = DOMAIN stats_conf_sum
              /\ \A k \in DOMAIN stats_counts : stats_counts[k] >= 1
              /\ total_detections = CountSum(stats_counts, DOMAIN stats_counts)
              /\ total_frames = pulled)
    /\ [][/\ total_frames' >= total_frames
          /\ total_detections' >= total_detections
          /\ \A k \in DOMAIN stats_counts :
                /\ k \in DOMAIN stats_counts'
                /\ stats_counts'[k] >= stats_counts[k]]_vars

\* C18 witness: after two frames with one detection of the same class each.
C18_Witness ==
    /\ pc = "pull"
    /\ pulled = 2
    /\ total_frames = 2
    /\ DOMAIN stats_counts = {"car"}
    /\ stats_counts["car"] = 2
    /\ total_detections = 2

\* The transcode pass has started or left a trace.
PassTouched ==
    \/ pc \in PassPcs
    \/ fi > 0
    \/ cap # "none"
    \/ tenc # "none"
    \/ targets # {}
    \/ deleted # {}
    \/ "NoAviConverted" \in out

\* C19: the pass runs only after at least one frame was processed, with a
\* save mode and --reencode-mp4 set; a run that processed no frame returns
\* before it and reads, converts and deletes no legacy file.
C19_PassNeedsFrames ==
    /\ PassTouched =>
          /\ total_frames > 0
          /\ args.save \/ args.save_mp4_direct
          /\ args.reencode_mp4
          /\ "Summary" \in out
    /\ "NoFrames" \in out => (pc = "done" /\ status = "returned" /\ ~PassTouched)

\* C19 witness: no frame, with --save, --reencode-mp4 and --delete-avi.
C19_Witness ==
    /\ pc = "done"
    /\ "NoFrames" \in out
    /\ endReason = "exhausted"
    /\ args.save
    /\ args.reencode_mp4
    /\ args.delete_avi
    /\ fi = 0

\* C20: when the backend raises on a pull after at least one frame, the
\* display and the encoder are released, the exception leaves main, and no
\* summary is printed and no pass runs; after a quit key or an interrupt with
\* at least one frame the summary is printed.
C20_ErrorSkipsSummary ==
    /\ (pc = "done" /\ raisedAt = "pull") =>
          /\ status = "raised"
          /\ total_frames >= 1
          /\ destroyCount = 1
          /\ ~EncoderOpen
          /\ out \subseteq {"WritingDirect"}
          /\ summary = << >>
          /\ ~PassTouched
    /\ (pc = "done" /\ endReason \in {"quit", "interrupt"} /\ total_frames >= 1) =>
          /\ status = "returned"
          /\ "Summary" \in out

\* C20 witness: direct mode with --reencode-mp4, one frame with a detection
\* processed, then the backend raised.
C20_Witness ==
    /\ pc = "done"
    /\ raisedAt = "pull"
    /\ total_detections = 1
    /\ openCount = 1
    /\ releaseCount = 1
    /\ args.reencode_mp4

====
